---- MODULE Spec2Model ----
(***************************************************************************)
(* FHERockPaperScissors: the single-game contract (startGame, joinGame,    *)
(* submitEncryptedChoice, _computeWinnerFHE, getGame) together with the    *)
(* part of the FHE library state it drives: the ciphertext store behind    *)
(* the handles, the contract's access list and the set of handles marked   *)
(* publicly decryptable.                                                   *)
(*                                                                         *)
(* A handle (euint32 / ebool) is a number: 0 is the uninitialized handle,  *)
(* h > 0 names the ciphertext ct[h].  The store keeps the plaintext behind *)
(* every ciphertext (an ebool as 0 / 1); the contract itself only ever     *)
(* looks at handles.  A transaction is one atomic step; a failed require   *)
(* rolls the whole world back and only its revert reason is observed.      *)
(* Inputs are well-formed (proof-checked) encryptions of a 32-bit value;   *)
(* the values used are far below 2^32, so no operation wraps.              *)
(***************************************************************************)
EXTENDS Naturals, Sequences, FiniteSets

VARIABLES
    game,                 \* Game public game
    ct,                   \* ciphertext store: handle h |-> plaintext ct[h]
    acl,                  \* handles the contract may use (FHE.allowThis)
    publiclyDecryptable,  \* handles marked by FHE.makePubliclyDecryptable
    events,               \* the contract's event log
    last,                 \* the last transaction: function, sender, input, revert reason
    pre,                  \* the game record as it was before the last transaction
    twin,                 \* a second deployment driven by the same calls (two-run properties)
    hook                  \* the frontend hook: isProcessing, the handler in flight, message

vars == <<game, ct, acl, publiclyDecryptable, events, last, pre, twin, hook>>

---------------------------------------------------------------------------
(* Bounds *)

NumAddresses == 3         \* senders 1..NumAddresses (alice, bob, deployer)
MaxInput == 3             \* submitted plaintexts range over 0..MaxInput

---------------------------------------------------------------------------
(* Constants of the program *)

ZeroAddress == 0
ZeroHandle == 0

Waiting == 0
InProgress == 1
Completed == 2

Rock == 0
Paper == 1
Scissors == 2

Addresses == 1..NumAddresses
Inputs == 0..MaxInput
Choices == {Rock, Paper, Scissors}

\* revert reasons, by the failure kind they stand for
AlreadyInProgress == "Game already started"
NoGame == "Game not started"
SeatTaken == "Game already has two players"
SelfJoin == "Cannot join your own game"
NotWaiting == "Game is not waiting for players"
NotAPlayer == "Not a player in this game"
InvalidState == "Game not in valid state"
Player1Duplicate == "Player 1 already submitted choice"
Player2Duplicate == "Player 2 already submitted choice"
DuplicateSubmission == {Player1Duplicate, Player2Duplicate}
Ok == ""

---------------------------------------------------------------------------
(* The game record and the world a transaction runs in *)

\* storage before any transaction: every field zero
EmptyGame ==
    [player1 |-> ZeroAddress, player2 |-> ZeroAddress,
     encryptedPlayer1Choice |-> ZeroHandle, encryptedPlayer2Choice |-> ZeroHandle,
     encryptedP1Wins |-> ZeroHandle, encryptedIsTie |-> ZeroHandle,
     winner |-> ZeroAddress, status |-> Waiting]

EmptyWorld ==
    [game |-> EmptyGame, ct |-> <<>>, acl |-> {}, pub |-> {}, events |-> <<>>]

\* outcome of a transaction: the world it leaves and its revert reason
Success(w) == [w |-> w, revert |-> Ok]
Revert(w, reason) == [w |-> w, revert |-> reason]

Emit(w, name, who) == [w EXCEPT !.events = Append(@, <<name, who>>)]

---------------------------------------------------------------------------
(* FHE library, as far as the contract uses it *)

unwrap(h) == h

\* plaintext behind a handle; the uninitialized handle reads as 0
Plain(w, h) == IF h = ZeroHandle THEN 0 ELSE w.ct[h]

\* a fresh ciphertext of v: the world with it, and its handle
NewCiphertext(w, v) ==
    [w |-> [w EXCEPT !.ct = Append(@, v)], h |-> Len(w.ct) + 1]

fromExternal(w, v) == NewCiphertext(w, v)
asEuint32(w, v) == NewCiphertext(w, v)
eq(w, a, b) == NewCiphertext(w, IF Plain(w, a) = Plain(w, b) THEN 1 ELSE 0)
\* mutation: a disjunction where the conjunction is meant
and_asOr(w, a, b) ==
    NewCiphertext(w, IF Plain(w, a) = 1 \/ Plain(w, b) = 1 THEN 1 ELSE 0)

and(w, a, b) == NewCiphertext(w, IF Plain(w, a) = 1 /\ Plain(w, b) = 1 THEN 1 ELSE 0)
or(w, a, b) == NewCiphertext(w, IF Plain(w, a) = 1 \/ Plain(w, b) = 1 THEN 1 ELSE 0)
allowThis(w, h) == [w EXCEPT !.acl = @ \cup {h}]
makePubliclyDecryptable(w, h) == [w EXCEPT !.pub = @ \cup {h}]

---------------------------------------------------------------------------
(* _computeWinnerFHE *)

\* mutation: the Rock shape tests player 2 against Paper
winnerCiphertexts_swapped(w) ==
    LET r1 == asEuint32(w, Rock)
        rock == r1.h
        r2 == asEuint32(r1.w, Paper)
        paper == r2.h
        r3 == asEuint32(r2.w, Scissors)
        scissors == r3.h
        p1Choice == w.game.encryptedPlayer1Choice
        p2Choice == w.game.encryptedPlayer2Choice
        isTie == eq(r3.w, p1Choice, p2Choice)
        a1 == eq(isTie.w, p1Choice, rock)
        b1 == eq(a1.w, p2Choice, paper)
        p1WinsRock == and(b1.w, a1.h, b1.h)
        a2 == eq(p1WinsRock.w, p1Choice, paper)
        b2 == eq(a2.w, p2Choice, rock)
        p1WinsPaper == and(b2.w, a2.h, b2.h)
        a3 == eq(p1WinsPaper.w, p1Choice, scissors)
        b3 == eq(a3.w, p2Choice, paper)
        p1WinsScissors == and(b3.w, a3.h, b3.h)
        o1 == or(p1WinsScissors.w, p1WinsRock.h, p1WinsPaper.h)
        p1Wins == or(o1.w, o1.h, p1WinsScissors.h)
    IN  [p1Wins.w EXCEPT !.game.encryptedIsTie = isTie.h,
                         !.game.encryptedP1Wins = p1Wins.h]

\* the winner predicate over the two stored ciphertexts; stores both results
winnerCiphertexts(w) ==
    LET r1 == asEuint32(w, Rock)
        rock == r1.h
        r2 == asEuint32(r1.w, Paper)
        paper == r2.h
        r3 == asEuint32(r2.w, Scissors)
        scissors == r3.h
        p1Choice == w.game.encryptedPlayer1Choice
        p2Choice == w.game.encryptedPlayer2Choice
        isTie == eq(r3.w, p1Choice, p2Choice)
        a1 == eq(isTie.w, p1Choice, rock)
        b1 == eq(a1.w, p2Choice, scissors)
        p1WinsRock == and(b1.w, a1.h, b1.h)
        a2 == eq(p1WinsRock.w, p1Choice, paper)
        b2 == eq(a2.w, p2Choice, rock)
        p1WinsPaper == and(b2.w, a2.h, b2.h)
        a3 == eq(p1WinsPaper.w, p1Choice, scissors)
        b3 == eq(a3.w, p2Choice, paper)
        p1WinsScissors == and(b3.w, a3.h, b3.h)
        o1 == or(p1WinsScissors.w, p1WinsRock.h, p1WinsPaper.h)
        p1Wins == or(o1.w, o1.h, p1WinsScissors.h)
    IN  [p1Wins.w EXCEPT !.game.encryptedIsTie = isTie.h,
                         !.game.encryptedP1Wins = p1Wins.h]

\* mutation: player 1's move is declassified along with the outcome
declassifyOutcome_leaky(w) ==
    LET w0 == makePubliclyDecryptable(w, w.game.encryptedPlayer1Choice)
        w1 == makePubliclyDecryptable(w0, w0.game.encryptedP1Wins)
        w2 == makePubliclyDecryptable(w1, w1.game.encryptedIsTie)
        w3 == allowThis(w2, w2.game.encryptedP1Wins)
    IN  allowThis(w3, w3.game.encryptedIsTie)

\* only the two stored results are made publicly decryptable
declassifyOutcome(w) ==
    LET w1 == makePubliclyDecryptable(w, w.game.encryptedP1Wins)
        w2 == makePubliclyDecryptable(w1, w1.game.encryptedIsTie)
        w3 == allowThis(w2, w2.game.encryptedP1Wins)
    IN  allowThis(w3, w3.game.encryptedIsTie)

\* mutation: the status is not moved to Completed
_computeWinnerFHE_noStatus(w) == declassifyOutcome(winnerCiphertexts(w))

_computeWinnerFHE(w) ==
    [declassifyOutcome(winnerCiphertexts(w)) EXCEPT !.game.status = Completed]

---------------------------------------------------------------------------
(* startGame *)

\* mutation: the starter is entered as the winner
freshGame_winner(sender) ==
    [player1 |-> sender, player2 |-> ZeroAddress,
     encryptedPlayer1Choice |-> ZeroHandle, encryptedPlayer2Choice |-> ZeroHandle,
     encryptedP1Wins |-> ZeroHandle, encryptedIsTie |-> ZeroHandle,
     winner |-> sender, status |-> Waiting]

\* the record startGame writes
freshGame(sender) ==
    [player1 |-> sender, player2 |-> ZeroAddress,
     encryptedPlayer1Choice |-> ZeroHandle, encryptedPlayer2Choice |-> ZeroHandle,
     encryptedP1Wins |-> ZeroHandle, encryptedIsTie |-> ZeroHandle,
     winner |-> ZeroAddress, status |-> Waiting]

\* mutation: the guard looks at the second seat instead of the first
startGame_seat2(w, sender) ==
    IF ~(w.game.player2 = ZeroAddress) THEN Revert(w, AlreadyInProgress)
    ELSE Success(Emit([w EXCEPT !.game = freshGame(sender)], "GameStarted", sender))

startGame(w, sender) ==
    IF ~(w.game.player1 = ZeroAddress) THEN Revert(w, AlreadyInProgress)
    ELSE Success(Emit([w EXCEPT !.game = freshGame(sender)], "GameStarted", sender))

---------------------------------------------------------------------------
(* joinGame *)

\* mutation: the seat is taken but the status is left at Waiting
joinGame_noStatus(w, sender) ==
    IF ~(w.game.player1 # ZeroAddress) THEN Revert(w, NoGame)
    ELSE IF ~(w.game.player2 = ZeroAddress) THEN Revert(w, SeatTaken)
    ELSE IF ~(w.game.player1 # sender) THEN Revert(w, SelfJoin)
    ELSE IF ~(w.game.status = Waiting) THEN Revert(w, NotWaiting)
    ELSE Success(Emit([w EXCEPT !.game.player2 = sender], "GameJoined", sender))

\* mutation: the own-game check is missing
joinGame_noSelfCheck(w, sender) ==
    IF ~(w.game.player1 # ZeroAddress) THEN Revert(w, NoGame)
    ELSE IF ~(w.game.player2 = ZeroAddress) THEN Revert(w, SeatTaken)
    ELSE IF ~(w.game.status = Waiting) THEN Revert(w, NotWaiting)
    ELSE Success(Emit([w EXCEPT !.game.player2 = sender,
                                !.game.status = InProgress],
                      "GameJoined", sender))

\* mutation: the second-seat check is missing
joinGame_noSeatCheck(w, sender) ==
    IF ~(w.game.player1 # ZeroAddress) THEN Revert(w, NoGame)
    ELSE IF ~(w.game.player1 # sender) THEN Revert(w, SelfJoin)
    ELSE IF ~(w.game.status = Waiting) THEN Revert(w, NotWaiting)
    ELSE Success(Emit([w EXCEPT !.game.player2 = sender,
                                !.game.status = InProgress],
                      "GameJoined", sender))

\* mutation: the game-exists check is missing
joinGame_noGameCheck(w, sender) ==
    IF ~(w.game.player2 = ZeroAddress) THEN Revert(w, SeatTaken)
    ELSE IF ~(w.game.player1 # sender) THEN Revert(w, SelfJoin)
    ELSE IF ~(w.game.status = Waiting) THEN Revert(w, NotWaiting)
    ELSE Success(Emit([w EXCEPT !.game.player2 = sender,
                                !.game.status = InProgress],
                      "GameJoined", sender))

\* mutation: the own-game failure keeps the seat it had already written
joinGame_lateCheck(w, sender) ==
    IF ~(w.game.player1 # ZeroAddress) THEN Revert(w, NoGame)
    ELSE IF ~(w.game.player2 = ZeroAddress) THEN Revert(w, SeatTaken)
    ELSE IF ~(w.game.player1 # sender)
         THEN Revert([w EXCEPT !.game.player2 = sender], SelfJoin)
    ELSE IF ~(w.game.status = Waiting) THEN Revert(w, NotWaiting)
    ELSE Success(Emit([w EXCEPT !.game.player2 = sender,
                                !.game.status = InProgress],
                      "GameJoined", sender))

joinGame(w, sender) ==
    IF ~(w.game.player1 # ZeroAddress) THEN Revert(w, NoGame)
    ELSE IF ~(w.game.player2 = ZeroAddress) THEN Revert(w, SeatTaken)
    ELSE IF ~(w.game.player1 # sender) THEN Revert(w, SelfJoin)
    ELSE IF ~(w.game.status = Waiting) THEN Revert(w, NotWaiting)
    ELSE Success(Emit([w EXCEPT !.game.player2 = sender,
                                !.game.status = InProgress],
                      "GameJoined", sender))

---------------------------------------------------------------------------
(* submitEncryptedChoice *)

\* mutation: the duplicate check is missing
player1SlotFree_always(w) == TRUE

\* mutation: "unset" is decided by the value behind the handle
player1SlotFree_plain(w) == Plain(w, w.game.encryptedPlayer1Choice) = 0

player1SlotFree(w) == unwrap(w.game.encryptedPlayer1Choice) = 0
player2SlotFree(w) == unwrap(w.game.encryptedPlayer2Choice) = 0

\* mutation: || for &&
bothChoicesSubmitted_either(g) ==
    unwrap(g.encryptedPlayer1Choice) # 0 \/ unwrap(g.encryptedPlayer2Choice) # 0

bothChoicesSubmitted(g) ==
    unwrap(g.encryptedPlayer1Choice) # 0 /\ unwrap(g.encryptedPlayer2Choice) # 0

\* mutation: only player 2's submission can trigger the winner computation
afterStore_player2Only(w, sender) ==
    LET w1 == Emit(w, "EncryptedChoiceSubmitted", sender)
    IN  IF bothChoicesSubmitted(w1.game) /\ w1.game.status = InProgress
           /\ sender = w1.game.player2
        THEN Success(_computeWinnerFHE(w1))
        ELSE Success(w1)

\* mutation: the submission is not announced
afterStore_noEvent(w, sender) ==
    IF bothChoicesSubmitted(w.game) /\ w.game.status = InProgress
    THEN Success(_computeWinnerFHE(w))
    ELSE Success(w)

\* after the caller's slot is written: event, then the winner if both are in
afterStore(w, sender) ==
    LET w1 == Emit(w, "EncryptedChoiceSubmitted", sender)
    IN  IF bothChoicesSubmitted(w1.game) /\ w1.game.status = InProgress
        THEN Success(_computeWinnerFHE(w1))
        ELSE Success(w1)

\* mutation: the caller is not checked against the two seats
submitEncryptedChoice_anyCaller(w, sender, input) ==
    IF ~(w.game.player1 # ZeroAddress) THEN Revert(w, NoGame)
    ELSE IF ~(w.game.status = Waiting \/ w.game.status = InProgress)
         THEN Revert(w, InvalidState)
    ELSE LET encryptedChoice == fromExternal(w, input)
             w0 == encryptedChoice.w
         IN  IF sender = w0.game.player1
             THEN IF ~player1SlotFree(w0) THEN Revert(w, Player1Duplicate)
                  ELSE afterStore(
                         allowThis([w0 EXCEPT !.game.encryptedPlayer1Choice =
                                                  encryptedChoice.h],
                                   encryptedChoice.h),
                         sender)
             ELSE IF ~player2SlotFree(w0) THEN Revert(w, Player2Duplicate)
                  ELSE afterStore(
                         allowThis([w0 EXCEPT !.game.encryptedPlayer2Choice =
                                                  encryptedChoice.h],
                                   encryptedChoice.h),
                         sender)

submitEncryptedChoice(w, sender, input) ==
    IF ~(w.game.player1 # ZeroAddress) THEN Revert(w, NoGame)
    ELSE IF ~(sender = w.game.player1 \/ sender = w.game.player2)
         THEN Revert(w, NotAPlayer)
    ELSE IF ~(w.game.status = Waiting \/ w.game.status = InProgress)
         THEN Revert(w, InvalidState)
    ELSE LET encryptedChoice == fromExternal(w, input)
             w0 == encryptedChoice.w
         IN  IF sender = w0.game.player1
             THEN IF ~player1SlotFree(w0) THEN Revert(w, Player1Duplicate)
                  ELSE afterStore(
                         allowThis([w0 EXCEPT !.game.encryptedPlayer1Choice =
                                                  encryptedChoice.h],
                                   encryptedChoice.h),
                         sender)
             ELSE IF ~player2SlotFree(w0) THEN Revert(w, Player2Duplicate)
                  ELSE afterStore(
                         allowThis([w0 EXCEPT !.game.encryptedPlayer2Choice =
                                                  encryptedChoice.h],
                                   encryptedChoice.h),
                         sender)

---------------------------------------------------------------------------
(* getGame: what any caller reads *)

getGame(w) ==
    <<w.game.player1, w.game.player2, w.game.encryptedP1Wins,
      w.game.encryptedIsTie, w.game.winner, w.game.status>>

---------------------------------------------------------------------------
(* Transactions *)

World ==
    [game |-> game, ct |-> ct, acl |-> acl, pub |-> publiclyDecryptable,
     events |-> events]

\* the deployment takes the outcome r of the transaction described by call
Commit(r, call) ==
    /\ game' = r.w.game
    /\ ct' = r.w.ct
    /\ acl' = r.w.acl
    /\ publiclyDecryptable' = r.w.pub
    /\ events' = r.w.events
    /\ last' = [call EXCEPT !.revert = r.revert]
    /\ pre' = game

Call(op, sender, input) ==
    [op |-> op, sender |-> sender, input |-> input, revert |-> Ok]

StartGame ==
    \E sender \in Addresses :
        /\ Commit(startGame(World, sender), Call("startGame", sender, 0))
        /\ UNCHANGED <<twin, hook>>

JoinGame ==
    \E sender \in Addresses :
        /\ Commit(joinGame(World, sender), Call("joinGame", sender, 0))
        /\ UNCHANGED <<twin, hook>>

SubmitEncryptedChoice ==
    \E sender \in Addresses, input \in Inputs :
        /\ Commit(submitEncryptedChoice(World, sender, input),
                  Call("submitEncryptedChoice", sender, input))
        /\ UNCHANGED <<twin, hook>>

\* the hook with no handler running: isProcessing false, no message yet
IdleHook ==
    [isProcessing |-> FALSE, pc |-> "idle", op |-> "none",
     address |-> ZeroAddress, choice |-> 0, message |-> ""]

Init ==
    /\ game = EmptyGame
    /\ ct = <<>>
    /\ acl = {}
    /\ publiclyDecryptable = {}
    /\ events = <<>>
    /\ last = Call("deploy", ZeroAddress, 0)
    /\ pre = EmptyGame
    /\ twin = Success(EmptyWorld)
    /\ hook = IdleHook

Next == StartGame \/ JoinGame \/ SubmitEncryptedChoice

Spec == Init /\ [][Next]_vars

---------------------------------------------------------------------------
(* Two deployments driven by the same calls from the same senders; only    *)
(* the plaintexts behind the submitted ciphertexts may differ.             *)

StartGamePair ==
    \E sender \in Addresses :
        /\ Commit(startGame(World, sender), Call("startGame", sender, 0))
        /\ twin' = startGame(twin.w, sender)
        /\ UNCHANGED hook

JoinGamePair ==
    \E sender \in Addresses :
        /\ Commit(joinGame(World, sender), Call("joinGame", sender, 0))
        /\ twin' = joinGame(twin.w, sender)
        /\ UNCHANGED hook

SubmitEncryptedChoicePair ==
    \E sender \in Addresses, input \in Choices, other \in Choices :
        /\ Commit(submitEncryptedChoice(World, sender, input),
                  Call("submitEncryptedChoice", sender, input))
        /\ twin' = submitEncryptedChoice(twin.w, sender, other)
        /\ UNCHANGED hook

NextPair == StartGamePair \/ JoinGamePair \/ SubmitEncryptedChoicePair

SpecPair == Init /\ [][NextPair]_vars

---------------------------------------------------------------------------
(* Reading a state *)

\* the plaintexts behind the stored ciphertexts (what a decryption returns)
choiceA == Plain(World, game.encryptedPlayer1Choice)
choiceB == Plain(World, game.encryptedPlayer2Choice)
aWins == Plain(World, game.encryptedP1Wins) = 1
tie == Plain(World, game.encryptedIsTie) = 1

\* the Rock-Paper-Scissors rule: a beats b
Beats(a, b) ==
    <<a, b>> \in {<<Rock, Scissors>>, <<Paper, Rock>>, <<Scissors, Paper>>}

slotASet(g) == g.encryptedPlayer1Choice # ZeroHandle
slotBSet(g) == g.encryptedPlayer2Choice # ZeroHandle

\* the last transaction was a call of op that (did not) revert
Succeeded(op) == last.op = op /\ last.revert = Ok
Failed(op) == last.op = op /\ last.revert # Ok

\* the sender of the last transaction held a seat whose slot was already set
SeatAlreadySubmitted ==
    \/ last.sender = pre.player1 /\ slotASet(pre)
    \/ last.sender = pre.player2 /\ slotBSet(pre)

---------------------------------------------------------------------------
(* C1: once player1 has submitted a and player2 has submitted b, both in   *)
(* {Rock, Paper, Scissors}, the stored results decrypt to tie = (a = b)    *)
(* and aWins = (a beats b).                                                *)
C1_WinnerFunction ==
    (slotASet(game) /\ slotBSet(game) /\ choiceA \in Choices /\ choiceB \in Choices)
        => /\ game.status = Completed
           /\ tie = (choiceA = choiceB)
           /\ aWins = Beats(choiceA, choiceB)

\* start(Alice), join(Bob), submit(Alice, Rock), submit(Bob, Scissors)
C1_Witness ==
    /\ game.player1 = 1 /\ game.player2 = 2
    /\ Succeeded("submitEncryptedChoice") /\ last.sender = 2
    /\ choiceA = Rock /\ choiceB = Scissors
    /\ game.status = Completed /\ aWins /\ ~tie

(* C2: the status is Completed exactly when both choice slots are set.     *)
C2_CompletedIffBothSet ==
    (game.status = Completed) <=> (slotASet(game) /\ slotBSet(game))

\* a successful submit that left exactly one slot set
C2_Witness ==
    /\ Succeeded("submitEncryptedChoice")
    /\ slotASet(game) # slotBSet(game)
    /\ game.status = InProgress

(* C3: within one game a slot that is set is never written again: every    *)
(* step other than a successful startGame leaves a set slot as it is.      *)
C3_SingleWriter ==
    [][~(last'.op = "startGame" /\ last'.revert = Ok)
         => /\ slotASet(game)
                => game'.encryptedPlayer1Choice = game.encryptedPlayer1Choice
            /\ slotBSet(game)
                => game'.encryptedPlayer2Choice = game.encryptedPlayer2Choice]_vars

\* player 1 submits again while the game is still open
C3_Witness ==
    /\ last.op = "submitEncryptedChoice"
    /\ last.sender = pre.player1
    /\ slotASet(pre)
    /\ pre.status = InProgress

(* C4 as stated: whenever the sender's slot is already set, also after     *)
(* completion, submit fails with DuplicateSubmission and changes nothing.  *)
C4_DuplicateAlways ==
    (last.op = "submitEncryptedChoice" /\ SeatAlreadySubmitted)
        => last.revert \in DuplicateSubmission /\ game = pre

(* C4 amended: a repeated submit from a seat whose slot is set always      *)
(* fails and changes nothing; the failure is DuplicateSubmission while the *)
(* game is not Completed and "Game not in valid state" once it is.         *)
C4_DuplicateWhileOpen ==
    (last.op = "submitEncryptedChoice" /\ SeatAlreadySubmitted)
        => /\ game = pre
           /\ pre.status # Completed =>
                last.revert = (IF last.sender = pre.player1
                               THEN Player1Duplicate ELSE Player2Duplicate)
           /\ pre.status = Completed => last.revert = InvalidState

\* submit(Alice, Rock) then submit(Alice, ...): rejected, status still InProgress
C4_Witness ==
    /\ last.op = "submitEncryptedChoice"
    /\ last.sender = pre.player1
    /\ slotASet(pre) /\ ~slotBSet(pre)
    /\ last.revert = Player1Duplicate
    /\ game.status = InProgress

(* C5: when the game is Completed, startGame succeeds for any sender and   *)
(* replaces the record by a fresh one.                                     *)
C5_RestartAfterCompletion ==
    (last.op = "startGame" /\ pre.status = Completed)
        => last.revert = Ok /\ game = freshGame(last.sender)

(* C6: while a game exists with status Waiting or InProgress, startGame    *)
(* by any sender fails with AlreadyInProgress and changes nothing.         *)
C6_NoDoubleGame ==
    (last.op = "startGame" /\ pre.player1 # ZeroAddress
        /\ pre.status \in {Waiting, InProgress})
        => last.revert = AlreadyInProgress /\ game = pre

\* a third party tries to start over a game in progress
C6_Witness ==
    /\ last.op = "startGame"
    /\ pre.status = InProgress
    /\ last.sender \notin {pre.player1, pre.player2}
    /\ last.revert = AlreadyInProgress

(* C7: each result slot is set exactly when the status is Completed, and   *)
(* a result slot that is set is never changed by a later call.             *)
C7_ResultsTiedToCompletion ==
    /\ [](/\ (game.encryptedP1Wins # ZeroHandle) <=> (game.status = Completed)
          /\ (game.encryptedIsTie # ZeroHandle) <=> (game.status = Completed))
    /\ [][/\ game.encryptedP1Wins # ZeroHandle
               => /\ game'.encryptedP1Wins = game.encryptedP1Wins
                  /\ Plain(World, game.encryptedP1Wins)' = Plain(World, game.encryptedP1Wins)
          /\ game.encryptedIsTie # ZeroHandle
               => /\ game'.encryptedIsTie = game.encryptedIsTie
                  /\ Plain(World, game.encryptedIsTie)' = Plain(World, game.encryptedIsTie)]_vars

\* a call made after completion
C7_Witness ==
    /\ pre.status = Completed
    /\ game.status = Completed
    /\ game.encryptedP1Wins # ZeroHandle /\ game.encryptedIsTie # ZeroHandle
    /\ last.op \in {"startGame", "joinGame", "submitEncryptedChoice"}

(* C8: nothing is publicly decryptable until both choices are in; from     *)
(* then on exactly the two result ciphertexts are, and neither choice is.  *)
C8_DeclassificationBoundary ==
    /\ ~(slotASet(game) /\ slotBSet(game)) => publiclyDecryptable = {}
    /\ (slotASet(game) /\ slotBSet(game))
         => /\ publiclyDecryptable = {game.encryptedP1Wins, game.encryptedIsTie}
            /\ Cardinality(publiclyDecryptable) = 2
            /\ ZeroHandle \notin publiclyDecryptable
    /\ game.encryptedPlayer1Choice \notin publiclyDecryptable
    /\ game.encryptedPlayer2Choice \notin publiclyDecryptable

C8_Witness ==
    /\ Succeeded("submitEncryptedChoice")
    /\ game.status = Completed
    /\ Cardinality(publiclyDecryptable) = 2

(* C9: two runs of the same calls by the same senders that differ only in  *)
(* the submitted plaintexts show the same outcome of every call, the same  *)
(* events and the same game read; what they declassify is the same         *)
(* whenever their (aWins, tie) pairs are the same.                         *)
Outcome(w) ==
    <<Plain(w, w.game.encryptedP1Wins), Plain(w, w.game.encryptedIsTie)>>

Declassified(w) == [h \in w.pub |-> Plain(w, h)]

C9_Noninterference ==
    /\ last.revert = twin.revert
    /\ events = twin.w.events
    /\ getGame(World) = getGame(twin.w)
    /\ Outcome(World) = Outcome(twin.w) => Declassified(World) = Declassified(twin.w)

\* the two runs completed on different moves with different winners
C9_Witness ==
    /\ game.status = Completed /\ twin.w.game.status = Completed
    /\ choiceA # Plain(twin.w, twin.w.game.encryptedPlayer1Choice)
    /\ Outcome(World) # Outcome(twin.w)

(* C10: join by a sender other than player1 on a Waiting game with a free  *)
(* second seat succeeds, sets player2 and InProgress, and leaves player1,  *)
(* both choice slots and both result slots as they were.                   *)
C10_JoinEffect ==
    (last.op = "joinGame" /\ pre.player1 # ZeroAddress /\ pre.status = Waiting
        /\ pre.player2 = ZeroAddress /\ last.sender # pre.player1)
        => /\ last.revert = Ok
           /\ game = [pre EXCEPT !.player2 = last.sender, !.status = InProgress]

\* join after player 1 has already submitted
C10_Witness ==
    /\ Succeeded("joinGame")
    /\ slotASet(pre)
    /\ game.player2 = last.sender
    /\ game.status = InProgress

---------------------------------------------------------------------------
(* C11 as stated: whenever a game exists, join by player1 fails with       *)
(* SelfJoin and changes nothing.                                           *)
C11_SelfJoinAlways ==
    (last.op = "joinGame" /\ pre.player1 # ZeroAddress /\ last.sender = pre.player1)
        => last.revert = SelfJoin /\ game = pre

(* C11 amended: whenever a game exists, join by player1 fails and changes  *)
(* nothing; the failure is SelfJoin while the second seat is free and      *)
(* SeatTaken once player2 is set.                                          *)
C11_SelfJoinWhileSeatFree ==
    (last.op = "joinGame" /\ pre.player1 # ZeroAddress /\ last.sender = pre.player1)
        => /\ game = pre
           /\ pre.player2 = ZeroAddress => last.revert = SelfJoin
           /\ pre.player2 # ZeroAddress => last.revert = SeatTaken

\* start(Alice), join(Alice)
C11_Witness ==
    /\ last.op = "joinGame"
    /\ last.sender = pre.player1
    /\ pre.player2 = ZeroAddress
    /\ pre.status = Waiting
    /\ last.revert = SelfJoin

(* C12: whenever player2 is set, join by any sender fails with SeatTaken   *)
(* and changes nothing; a completed game cannot be joined.                 *)
C12_SeatTaken ==
    (last.op = "joinGame" /\ pre.player2 # ZeroAddress)
        => last.revert = SeatTaken /\ game = pre

\* a third party tries to join the completed game
C12_Witness ==
    /\ last.op = "joinGame"
    /\ pre.status = Completed
    /\ last.sender \notin {pre.player1, pre.player2}
    /\ last.revert = SeatTaken
    /\ game.status = Completed

(* C13: while no game has been started (player1 unset), join and submit    *)
(* fail with NoGame for every sender and input, and change nothing.        *)
C13_NoGame ==
    (last.op \in {"joinGame", "submitEncryptedChoice"} /\ pre.player1 = ZeroAddress)
        => last.revert = NoGame /\ game = pre /\ game = EmptyGame

\* a submit on the freshly deployed contract
C13_Witness ==
    /\ last.op = "submitEncryptedChoice"
    /\ pre.player1 = ZeroAddress
    /\ last.revert = NoGame
    /\ events = <<>>

(* C14: whenever a game exists, submit by a sender that is neither player1 *)
(* nor player2 fails with NotAPlayer and sets no slot; so a submit that    *)
(* succeeds before anyone has joined comes from player1.                   *)
C14_NotAPlayer ==
    /\ (last.op = "submitEncryptedChoice" /\ pre.player1 # ZeroAddress
          /\ last.sender \notin {pre.player1, pre.player2})
         => last.revert = NotAPlayer /\ game = pre
    /\ (Succeeded("submitEncryptedChoice") /\ pre.player2 = ZeroAddress)
         => last.sender = pre.player1

\* an outsider submits into a game that is waiting for its second move
C14_Witness ==
    /\ last.op = "submitEncryptedChoice"
    /\ pre.status = InProgress
    /\ slotASet(pre) /\ ~slotBSet(pre)
    /\ last.sender \notin {pre.player1, pre.player2}
    /\ last.revert = NotAPlayer

(* C15: a start, join or submit call that fails leaves the game record,    *)
(* the event log and the ciphertext state exactly as they were.            *)
C15_AllOrNothing ==
    [][last'.revert # Ok
         => /\ game' = game
            /\ events' = events
            /\ ct' = ct /\ acl' = acl /\ publiclyDecryptable' = publiclyDecryptable]_vars

\* a failed call on a game that already holds a move and an event log
C15_Witness ==
    /\ last.revert # Ok
    /\ last.op \in {"startGame", "joinGame", "submitEncryptedChoice"}
    /\ game = pre
    /\ slotASet(game)
    /\ Len(events) > 0

(* C16 as stated: every failure of start, join or submit is one of the six *)
(* kinds AlreadyInProgress, NoGame, SelfJoin, SeatTaken, NotAPlayer,       *)
(* DuplicateSubmission.                                                    *)
Taxonomy ==
    {AlreadyInProgress, NoGame, SelfJoin, SeatTaken, NotAPlayer}
        \cup DuplicateSubmission

C16_SixKinds == last.revert # Ok => last.revert \in Taxonomy

(* C16 amended: every failure is one of the six kinds or "Game not in      *)
(* valid state"; the latter is the failure of exactly the submits made by  *)
(* one of the two players after the game has completed.  "Game is not      *)
(* waiting for players" never occurs.                                      *)
C16_SixKindsOrInvalidState ==
    /\ last.revert # Ok => last.revert \in Taxonomy \cup {InvalidState}
    /\ last.revert = InvalidState
         <=> /\ last.op = "submitEncryptedChoice"
             /\ pre.status = Completed
             /\ last.sender \in {pre.player1, pre.player2}

\* a player submits again after the game has completed
C16_Witness ==
    /\ last.op = "submitEncryptedChoice"
    /\ pre.status = Completed
    /\ last.sender = pre.player2
    /\ last.revert = InvalidState

(* C17: the winner computation (the step that writes the result slots)     *)
(* runs only in a successful submit that finds exactly one slot set and    *)
(* sets the other, it runs in every such submit, and it never runs again   *)
(* once the results are written.                                           *)
EvaluatorRan ==
    \/ game'.encryptedIsTie # game.encryptedIsTie
    \/ game'.encryptedP1Wins # game.encryptedP1Wins
    \/ publiclyDecryptable' # publiclyDecryptable

SecondSubmit ==
    /\ last'.op = "submitEncryptedChoice" /\ last'.revert = Ok
    /\ slotASet(game) # slotBSet(game)
    /\ slotASet(game') /\ slotBSet(game')

C17_EvaluateOnce ==
    [][/\ EvaluatorRan <=> SecondSubmit
       /\ EvaluatorRan => /\ game.encryptedIsTie = ZeroHandle
                          /\ game.encryptedP1Wins = ZeroHandle
                          /\ Len(ct') = Len(ct) + 16]_vars

\* the second submit has just run the computation
C17_Witness ==
    /\ Succeeded("submitEncryptedChoice")
    /\ slotASet(pre) # slotBSet(pre)
    /\ pre.encryptedIsTie = ZeroHandle
    /\ game.encryptedIsTie # ZeroHandle
    /\ game.status = Completed

(* C18: from a joined game with no move yet, for every pair of moves       *)
(* (a, b), player1 submitting a and then player2 submitting b ends in the  *)
(* same record as player2 submitting b and then player1 submitting a:      *)
(* both orders succeed, end Completed with the same players, moves, aWins  *)
(* and tie, and in both the second submit is the one that computes.        *)
Final(w) ==
    [player1 |-> w.game.player1, player2 |-> w.game.player2,
     winner |-> w.game.winner, status |-> w.game.status,
     choiceA |-> Plain(w, w.game.encryptedPlayer1Choice),
     choiceB |-> Plain(w, w.game.encryptedPlayer2Choice),
     aWins |-> Plain(w, w.game.encryptedP1Wins),
     tie |-> Plain(w, w.game.encryptedIsTie),
     declassified |-> {Plain(w, h) : h \in w.pub}]

C18_OrderIrrelevant ==
    (game.status = InProgress /\ ~slotASet(game) /\ ~slotBSet(game))
        => \A a \in Inputs, b \in Inputs :
             LET a1 == submitEncryptedChoice(World, game.player1, a)
                 ab == submitEncryptedChoice(a1.w, game.player2, b)
                 b1 == submitEncryptedChoice(World, game.player2, b)
                 ba == submitEncryptedChoice(b1.w, game.player1, a)
             IN  /\ a1.revert = Ok /\ ab.revert = Ok
                 /\ b1.revert = Ok /\ ba.revert = Ok
                 /\ a1.w.game.status = InProgress /\ b1.w.game.status = InProgress
                 /\ a1.w.game.encryptedIsTie = ZeroHandle
                 /\ b1.w.game.encryptedIsTie = ZeroHandle
                 /\ ab.w.game.status = Completed
                 /\ Final(ab.w) = Final(ba.w)

\* player2 moved first and player1's submit completed the game
C18_Witness ==
    /\ Succeeded("submitEncryptedChoice")
    /\ last.sender = game.player1
    /\ slotBSet(pre) /\ ~slotASet(pre)
    /\ game.status = Completed
    /\ aWins = Beats(choiceA, choiceB)

(* C19: for every pair of submitted values aWins and tie are never both    *)
(* true, so exactly one of aWins, tie, neither holds.                      *)
C19_OutcomePartition ==
    (slotASet(game) /\ slotBSet(game))
        => /\ ~(aWins /\ tie)
           /\ Cardinality({o \in {"aWins", "tie", "neither"} :
                             \/ o = "aWins" /\ aWins
                             \/ o = "tie" /\ tie
                             \/ o = "neither" /\ ~aWins /\ ~tie}) = 1

\* Rock against Paper: neither aWins nor tie
C19_Witness ==
    /\ game.status = Completed
    /\ choiceA = Rock /\ choiceB = Paper
    /\ ~aWins /\ ~tie

(* C20: on a Waiting game two joins by distinct senders other than player1 *)
(* resolve by order: the first succeeds and becomes player2, the second    *)
(* fails SeatTaken without effect; on the empty contract two starts        *)
(* resolve the same way, the second failing AlreadyInProgress.             *)
C20_SerializedRaces ==
    /\ (game.player1 # ZeroAddress /\ game.status = Waiting
          /\ game.player2 = ZeroAddress)
         => \A c1 \in Addresses \ {game.player1}, c2 \in Addresses \ {game.player1} :
              c1 # c2 =>
                LET first == joinGame(World, c1)
                    second == joinGame(first.w, c2)
                IN  /\ first.revert = Ok
                    /\ first.w.game.player2 = c1
                    /\ second.revert = SeatTaken
                    /\ second.w = first.w
    /\ game.player1 = ZeroAddress
         => \A c1 \in Addresses, c2 \in Addresses :
              LET first == startGame(World, c1)
                  second == startGame(first.w, c2)
              IN  /\ first.revert = Ok
                  /\ first.w.game.player1 = c1
                  /\ second.revert = AlreadyInProgress
                  /\ second.w = first.w

\* the join that lost the race: the seat went to another sender just before
C20_Witness ==
    /\ last.op = "joinGame"
    /\ last.revert = SeatTaken
    /\ last.sender \notin {pre.player1, pre.player2}
    /\ pre.status = InProgress
    /\ ~slotASet(pre) /\ ~slotBSet(pre)
    /\ events[Len(events)] = <<"GameJoined", pre.player2>>

---------------------------------------------------------------------------
(* Reading the event log *)

\* how often the event <<name, who>> / any event called name was emitted
Count(evs, name, who) ==
    Cardinality({i \in 1..Len(evs) : evs[i] = <<name, who>>})
CountName(evs, name) ==
    Cardinality({i \in 1..Len(evs) : evs[i][1] = name})

(* C21: a game-completed event is emitted in the call that moves the       *)
(* status to Completed, once per game: the log of a completed game holds   *)
(* exactly one GameCompleted, and no other log holds any.                  *)
C21_GameCompletedEmitted ==
    CountName(events, "GameCompleted") = (IF game.status = Completed THEN 1 ELSE 0)

(* C22: a successful start by c emits GameStarted(c) once, a successful    *)
(* join by c GameJoined(c) once, a successful submit by c                  *)
(* EncryptedChoiceSubmitted(c) once; no other call emits any of the three, *)
(* so a completed game has logged exactly two submissions.                 *)
EmittedBy(op) ==
    IF op = "startGame" THEN "GameStarted"
    ELSE IF op = "joinGame" THEN "GameJoined"
    ELSE "EncryptedChoiceSubmitted"

C22_TransitionNotifications ==
    /\ [][\A name \in {"GameStarted", "GameJoined", "EncryptedChoiceSubmitted"},
             c \in Addresses :
               Count(events', name, c) =
                 Count(events, name, c) +
                   (IF last'.revert = Ok /\ last'.sender = c
                       /\ name = EmittedBy(last'.op)
                    THEN 1 ELSE 0)]_vars
    /\ [](game.status = Completed
            => /\ CountName(events, "EncryptedChoiceSubmitted") = 2
               /\ CountName(events, "GameJoined") = 1
               /\ CountName(events, "GameStarted") = 1)

\* the log of a completed game
C22_Witness ==
    /\ game.status = Completed
    /\ Count(events, "GameStarted", game.player1) = 1
    /\ Count(events, "GameJoined", game.player2) = 1
    /\ Count(events, "EncryptedChoiceSubmitted", game.player1) = 1
    /\ Count(events, "EncryptedChoiceSubmitted", game.player2) = 1

---------------------------------------------------------------------------
(* The frontend hook useFHERockPaperScissorsWagmi and the demo component,  *)
(* as functions of the game data read with getGame and of the connected    *)
(* address.                                                                *)

\* gameData: the tuple getGame returns, as the record the hook builds
gameData(w) ==
    LET data == getGame(w)
    IN  [player1 |-> data[1], player2 |-> data[2],
         encryptedP1Wins |-> data[3], encryptedIsTie |-> data[4],
         winner |-> data[5], status |-> data[6]]

isPlayer1(gd, address) == gd.player1 = address
isPlayer2(gd, address) == gd.player2 = address
isPlayer(gd, address) == isPlayer1(gd, address) \/ isPlayer2(gd, address)

hasPlayer1Submitted(gd) == gd.status = Completed \/ gd.status = InProgress
hasPlayer2Submitted(gd) == gd.status = Completed

hasCurrentPlayerSubmitted(gd, address) ==
    IF ~isPlayer(gd, address) THEN FALSE
    ELSE IF isPlayer1(gd, address) THEN hasPlayer1Submitted(gd)
    ELSE IF isPlayer2(gd, address) THEN hasPlayer2Submitted(gd)
    ELSE FALSE

(* C24: in every state with status InProgress at least one choice has been *)
(* submitted, and with status Completed both have.                         *)
C24_StatusInference ==
    /\ game.status = InProgress => slotASet(game) \/ slotBSet(game)
    /\ game.status = Completed => slotASet(game) /\ slotBSet(game)

(* C25: for a connected address that is player1 or player2, the hook's     *)
(* hasCurrentPlayerSubmitted, computed from the current game data, is true *)
(* exactly when that player's choice slot is set.                          *)
C25_HasSubmittedTracksSlot ==
    \A address \in Addresses :
        isPlayer(gameData(World), address)
            => (hasCurrentPlayerSubmitted(gameData(World), address)
                  <=> IF address = game.player1 THEN slotASet(game)
                      ELSE slotBSet(game))

(* C26: the winner field of the record is the zero address in every state, *)
(* whatever the outcome, and so is the winner getGame returns.             *)
C26_WinnerNeverStored ==
    /\ game.winner = ZeroAddress
    /\ getGame(World)[5] = ZeroAddress

\* a completed game that player1 has won
C26_Witness ==
    /\ game.status = Completed
    /\ aWins /\ ~tie
    /\ game.player1 # ZeroAddress
    /\ game.winner = ZeroAddress

(* C27: after a successful submit of any value, Rock (plaintext 0)         *)
(* included, the sender's slot is set: it is not the sentinel, a further   *)
(* submit from that seat is rejected whatever it carries, and the slot     *)
(* counts toward completion.                                               *)
C27_RockCountsAsSubmitted ==
    Succeeded("submitEncryptedChoice")
        => LET mine == IF last.sender = game.player1
                       THEN game.encryptedPlayer1Choice
                       ELSE game.encryptedPlayer2Choice
               other == IF last.sender = game.player1
                        THEN pre.encryptedPlayer2Choice
                        ELSE pre.encryptedPlayer1Choice
           IN  /\ unwrap(mine) # 0
               /\ Plain(World, mine) = last.input
               /\ \A v \in Inputs :
                    LET again == submitEncryptedChoice(World, last.sender, v)
                    IN  again.revert # Ok /\ again.w = World
               /\ (other # ZeroHandle /\ pre.status = InProgress)
                    => game.status = Completed

\* bob had submitted the plaintext 0, alice's Rock completes the game
C27_Witness ==
    /\ Succeeded("submitEncryptedChoice")
    /\ last.sender = game.player1
    /\ last.input = Rock
    /\ choiceA = Rock /\ choiceB = Rock
    /\ slotASet(game)
    /\ game.status = Completed

(* C28: if player2 is set then player1 is set and differs from player2.    *)
C28_SeatInvariant ==
    game.player2 # ZeroAddress
        => game.player1 # ZeroAddress /\ game.player2 # game.player1

\* just after a successful join
C28_Witness ==
    /\ Succeeded("joinGame")
    /\ game.player2 = last.sender
    /\ game.player2 # ZeroAddress

----------------------------------------------------------------------------
(* The result display: public decryption of the two result handles and the *)
(* text derived from them.  A decrypted flag is "true" or "false", and     *)
(* "undefined" while its handle is the zero hash or not yet decryptable.   *)

\* the decryption results: the clear value of every public handle
results(w) == [h \in w.pub |-> IF Plain(w, h) = 1 THEN "true" ELSE "false"]

decryptedResults(w) ==
    LET gd == gameData(w)
        lookup(h) == IF h # ZeroHandle /\ h \in DOMAIN results(w)
                     THEN results(w)[h] ELSE "undefined"
    IN  [p1Wins |-> lookup(gd.encryptedP1Wins),
         isTie |-> lookup(gd.encryptedIsTie)]

isDecrypted(w) ==
    /\ gameData(w).status = Completed
    /\ decryptedResults(w).p1Wins # "undefined"
    /\ decryptedResults(w).isTie # "undefined"

\* mutation: the tie flag is not looked at
getWinnerText_noTie(gd, dr) ==
    IF dr.p1Wins = "true"
    THEN [text |-> "Player 1 wins", who |-> gd.player1]
    ELSE [text |-> "Player 2 wins", who |-> gd.player2]

getWinnerText(gd, dr) ==
    IF dr.isTie = "true"
    THEN [text |-> "It's a tie", who |-> ZeroAddress]
    ELSE IF dr.p1Wins = "true"
    THEN [text |-> "Player 1 wins", who |-> gd.player1]
    ELSE [text |-> "Player 2 wins", who |-> gd.player2]

\* the text shown for the current state
winnerText == getWinnerText(gameData(World), decryptedResults(World))

(* C29: in a completed game whose two choices are in {0,1,2} the results   *)
(* are decrypted and the text names the true winner: a tie when a = b,     *)
(* Player 1 (player1's address) when a beats b, Player 2 (player2's        *)
(* address) when b beats a.                                                *)
C29_WinnerTextIsTrueWinner ==
    (game.status = Completed /\ choiceA \in Choices /\ choiceB \in Choices)
        => /\ isDecrypted(World)
           /\ choiceA = choiceB
                => winnerText = [text |-> "It's a tie", who |-> ZeroAddress]
           /\ Beats(choiceA, choiceB)
                => winnerText = [text |-> "Player 1 wins", who |-> game.player1]
           /\ Beats(choiceB, choiceA)
                => winnerText = [text |-> "Player 2 wins", who |-> game.player2]

\* Scissors against Scissors: the tie flag decides, p1Wins is false
C29_Witness ==
    /\ game.status = Completed
    /\ choiceA = Scissors /\ choiceB = Scissors
    /\ decryptedResults(World) = [p1Wins |-> "false", isTie |-> "true"]
    /\ winnerText.text = "It's a tie"

(* C30: whatever values the two players submitted, a completed game is     *)
(* reported as won by Player 2 (aWins false and tie false) only when       *)
(* player2's value is a valid choice that beats player1's.                 *)
C30_NoWinOutOfDomain ==
    (game.status = Completed /\ ~aWins /\ ~tie)
        => /\ winnerText.text = "Player 2 wins"
           /\ choiceB \in Choices
           /\ Beats(choiceB, choiceA)

----------------------------------------------------------------------------
(* The hook's action guards, for a connected wallet (contract, FHE         *)
(* instance and signer present) with the given address; processing is the  *)
(* hook's isProcessing flag.                                               *)

canStartGame(gd, address, processing) ==
    /\ ~processing
    /\ address # ZeroAddress
    /\ gd.player1 = ZeroAddress \/ gd.status = Completed

canJoinGame(gd, address, processing) ==
    /\ ~processing
    /\ address # ZeroAddress
    /\ gd.status = Waiting
    /\ gd.player1 # address
    /\ gd.player2 = ZeroAddress

canSubmitChoice(gd, address, processing) ==
    /\ ~processing
    /\ address # ZeroAddress
    /\ gd.status = Waiting \/ gd.status = InProgress
    /\ gd.player1 = address \/ gd.player2 = address

(* C32: whenever canJoinGame is true for an address, on game data equal to *)
(* the contract state, joinGame from that address succeeds; in every       *)
(* state, the one before any game was started included.                    *)
C32_JoinGuardAgrees ==
    \A address \in Addresses :
        canJoinGame(gameData(World), address, FALSE)
            => joinGame(World, address).revert = Ok

(* C33: whenever canSubmitChoice is true for an address, on game data      *)
(* equal to the contract state, submitEncryptedChoice of a valid choice    *)
(* from that address succeeds.                                             *)
C33_SubmitGuardAgrees ==
    \A address \in Addresses, choice \in Choices :
        canSubmitChoice(gameData(World), address, FALSE)
            => submitEncryptedChoice(World, address, choice).revert = Ok

(* C35: no joinGame call fails on the fourth check, neither the last       *)
(* transaction nor any call that could be made now; a game that is not     *)
(* Waiting has its player2 set, so an earlier check rejects the call.      *)
C35_FourthCheckUnreachable ==
    /\ last.revert # NotWaiting
    /\ \A sender \in Addresses : joinGame(World, sender).revert # NotWaiting
    /\ game.status # Waiting => game.player2 # ZeroAddress

\* a third address tried to join a game in progress and was told the seats are taken
C35_Witness ==
    /\ Failed("joinGame")
    /\ pre.status = InProgress
    /\ last.sender \notin {game.player1, game.player2}
    /\ last.revert = SeatTaken

----------------------------------------------------------------------------
(* The frontend.  Every transaction is issued by a handler of the hook,    *)
(* invoked from a control the page offers to the connected address on game *)
(* data equal to the contract state.  A handler sets isProcessing, awaits  *)
(* the encryption (submitChoice only), the sending of the transaction and  *)
(* its mining, and its finally block clears isProcessing.  One handler is  *)
(* in flight at a time; hook is the state of the invoking browser.  The    *)
(* write contract is defined whenever a guard is true (both need contract  *)
(* and signer), so the "not available" return is never taken.              *)

\* the page shows the choice buttons to address, enabled
UIOffersSubmit(w, address, processing) ==
    LET gd == gameData(w)
    IN  /\ isPlayer(gd, address)
        /\ gd.status # Completed
        /\ ~hasCurrentPlayerSubmitted(gd, address)
        /\ canSubmitChoice(gd, address, processing)

\* a handler starts: isProcessing is set, the first await is pending
Begin(op, address, choice, pc, message) ==
    hook' = [isProcessing |-> TRUE, pc |-> pc, op |-> op,
             address |-> address, choice |-> choice, message |-> message]

\* mutation: the handler ends without its finally block
Finish_noFinally(message) ==
    hook' = [IdleHook EXCEPT !.message = message, !.isProcessing = TRUE]

\* a handler ends: the finally block clears isProcessing
Finish(message) ==
    hook' = [IdleHook EXCEPT !.message = message]

HookStartGame ==
    \E address \in Addresses :
        /\ hook.pc = "idle"
        /\ canStartGame(gameData(World), address, hook.isProcessing)
        /\ Begin("startGame", address, 0, "send", "Starting a new game...")
        /\ UNCHANGED <<game, ct, acl, publiclyDecryptable, events, last, pre, twin>>

HookJoinGame ==
    \E address \in Addresses :
        /\ hook.pc = "idle"
        /\ canJoinGame(gameData(World), address, hook.isProcessing)
        /\ Begin("joinGame", address, 0, "send", "Joining the game...")
        /\ UNCHANGED <<game, ct, acl, publiclyDecryptable, events, last, pre, twin>>

HookSubmitChoice ==
    \E address \in Addresses, choice \in Choices :
        /\ hook.pc = "idle"
        /\ UIOffersSubmit(World, address, hook.isProcessing)
        /\ Begin("submitEncryptedChoice", address, choice, "encrypt",
                 "Encrypting and submitting...")
        /\ UNCHANGED <<game, ct, acl, publiclyDecryptable, events, last, pre, twin>>

\* await encryptWith(...) settles: a ciphertext, nothing, or an exception
EncryptSettles ==
    /\ hook.pc = "encrypt"
    /\ \E enc \in {"handles", "undefined", "throws"} :
        CASE enc = "handles" -> hook' = [hook EXCEPT !.pc = "send"]
          [] enc = "undefined" -> Finish("Encryption failed")
          [] enc = "throws" -> Finish("Submit choice failed")
    /\ UNCHANGED <<game, ct, acl, publiclyDecryptable, events, last, pre, twin>>

\* await writeContract.<op>(...) settles: the transaction is sent or rejected
SendSettles ==
    /\ hook.pc = "send"
    /\ \E sent \in BOOLEAN :
        IF sent
        THEN hook' = [hook EXCEPT !.pc = "wait", !.message = "Waiting for transaction..."]
        ELSE Finish("Transaction rejected")
    /\ UNCHANGED <<game, ct, acl, publiclyDecryptable, events, last, pre, twin>>

\* await tx.wait() settles: the transaction is mined, or reverts and throws
WaitSettles ==
    /\ hook.pc = "wait"
    /\ LET r == CASE hook.op = "startGame" -> startGame(World, hook.address)
                  [] hook.op = "joinGame" -> joinGame(World, hook.address)
                  [] OTHER -> submitEncryptedChoice(World, hook.address, hook.choice)
       IN  /\ Commit(r, Call(hook.op, hook.address, hook.choice))
           /\ Finish(IF r.revert = Ok THEN "Transaction mined" ELSE "Transaction failed")
    /\ UNCHANGED twin

NextUI ==
    \/ HookStartGame \/ HookJoinGame \/ HookSubmitChoice
    \/ EncryptSettles \/ SendSettles \/ WaitSettles

SpecUI == Init /\ [][NextUI]_vars

\* what the hook sees of WaitSettles: tx.wait() returns or throws, and the
\* handler ends.  The steps of NextUI that change hook this way are exactly
\* the WaitSettles steps, and both are enabled exactly when pc is "wait".
WaitReturns ==
    /\ hook.pc = "wait"
    /\ \E mined \in BOOLEAN :
         Finish(IF mined THEN "Transaction mined" ELSE "Transaction failed")

\* each awaited step eventually settles
SpecUIFair ==
    SpecUI /\ WF_vars(EncryptSettles) /\ WF_vars(SendSettles) /\ WF_hook(WaitReturns)

\* the calls the page offers in w to an idle browser
UIOffered(w) ==
    {Call("startGame", a, 0) : a \in {x \in Addresses : canStartGame(gameData(w), x, FALSE)}}
    \cup {Call("joinGame", a, 0) : a \in {x \in Addresses : canJoinGame(gameData(w), x, FALSE)}}
    \cup {Call("submitEncryptedChoice", a, c) :
            a \in {x \in Addresses : UIOffersSubmit(w, x, FALSE)}, c \in Choices}

UIResult(w, call) ==
    CASE call.op = "startGame" -> startGame(w, call.sender)
      [] call.op = "joinGame" -> joinGame(w, call.sender)
      [] OTHER -> submitEncryptedChoice(w, call.sender, call.input)

\* some sequence of offered calls, each mined successfully, completes the game
RECURSIVE UICanComplete(_)
UICanComplete(w) ==
    \/ w.game.status = Completed
    \/ \E call \in UIOffered(w) :
         /\ UIResult(w, call).revert = Ok
         /\ UICanComplete(UIResult(w, call).w)

(* C31: with the players acting only through the page, from every state in *)
(* which player2 has joined and the game is not Completed some sequence of *)
(* offered actions reaches Completed; in particular player1, if still to   *)
(* submit, is offered the choice buttons.                                  *)
C31_UILiveness ==
    (game.player2 # ZeroAddress /\ game.status # Completed)
        => /\ UICanComplete(World)
           /\ ~slotASet(game) => UIOffersSubmit(World, game.player1, FALSE)

(* C34: isProcessing is true exactly while a handler is in flight, and     *)
(* every handler that set it clears it again: when true it eventually      *)
(* becomes false, on every exit path, given that each await settles.       *)
C34_ProcessingReleased ==
    /\ [](hook.isProcessing <=> hook.pc # "idle")
    /\ hook.isProcessing ~> ~hook.isProcessing

\* a submitChoice handler waiting for its transaction to be mined
C34_Witness ==
    /\ hook.isProcessing
    /\ hook.op = "submitEncryptedChoice"
    /\ hook.pc = "wait"

====
